---- MODULE Spec2Model ----
(***************************************************************************)
(* Model of the qz archive engine (qz/src/lib.rs, qz/src/errors.rs):       *)
(* the packer (pack_dir, create_archive, write_files_dir), the reader      *)
(* (read_archive), path resolution (get_path, _get_entry, get_entry, ls)   *)
(* and retrieval (QZFile::read_file, QZFile::is_valid, QZArchive::read_file,*)
(* QZArchive::check_file), together with the environment that can damage   *)
(* the archive file between calls.                                         *)
(*                                                                         *)
(* Bytes are integers 0..255.  A path string is a sequence of tokens, each *)
(* either the separator "/" or a maximal run of non-separator characters.  *)
(***************************************************************************)
EXTENDS Integers, Sequences, FiniteSets, TLC

VARIABLES pc, src, codec, disk, archive, last, packed, damage, sweep

vars == <<pc, src, codec, disk, archive, last, packed, damage, sweep>>

(***************************************************************************)
(* Bounds of the model.                                                    *)
(***************************************************************************)
\* number of entries (files, directories, others) below the source root
MaxEntries == 3
\* number of damaging events (byte changes, truncations) on the archive file
MaxDamage == 1

(***************************************************************************)
(* Generic helpers.                                                         *)
(***************************************************************************)
Range(s) == {s[i] : i \in 1..Len(s)}

RECURSIVE SumSeq(_)
SumSeq(s) == IF s = <<>> THEN 0 ELSE Head(s) + SumSeq(Tail(s))

RECURSIVE Xor(_, _)
\* bitwise exclusive or of two naturals
Xor(a, b) ==
    IF a = 0 THEN b
    ELSE IF b = 0 THEN a
    ELSE (((a % 2) + (b % 2)) % 2) + 2 * Xor(a \div 2, b \div 2)

(***************************************************************************)
(* crc32fast::hash : CRC-32 (IEEE, reflected polynomial EDB88320 hex),     *)
(* byte-wise table form.  A u32 is written as its four bytes, least        *)
(* significant first, because the checker's integers are 32-bit signed.    *)
(***************************************************************************)
RECURSIVE CrcBits(_, _, _)
\* k shift-and-conditionally-xor steps on the u32 hi * 65536 + lo
CrcBits(hi, lo, k) ==
    IF k = 0 THEN <<lo % 256, lo \div 256, hi % 256, hi \div 256>>
    ELSE LET shHi == hi \div 2
             shLo == (lo \div 2) + ((hi % 2) * 32768)
         IN  IF lo % 2 = 1
             THEN CrcBits(Xor(shHi, 60856), Xor(shLo, 33568), k - 1)
             ELSE CrcBits(shHi, shLo, k - 1)

CrcTable == [i \in 0..255 |-> CrcBits(0, i, 8)]

RECURSIVE CrcUpdate(_, _)
CrcUpdate(c, bytes) ==
    IF bytes = <<>> THEN c
    ELSE LET t == CrcTable[Xor(c[1], Head(bytes))]
         IN  CrcUpdate(<<Xor(t[1], c[2]), Xor(t[2], c[3]), Xor(t[3], c[4]), t[4]>>,
                       Tail(bytes))

crc32_hash(bytes) ==
    LET c == CrcUpdate(<<255, 255, 255, 255>>, bytes)
    IN  <<Xor(c[1], 255), Xor(c[2], 255), Xor(c[3], 255), Xor(c[4], 255)>>

(***************************************************************************)
(* Result values.  Ok(v) and Err(e) are the two variants of Result; Panic  *)
(* is the outcome of an unwrap()/expect() on a failed call, which aborts   *)
(* the calling process instead of returning.                               *)
(***************************************************************************)
Ok(v)  == [tag |-> "Ok", val |-> v]
Err(e) == [tag |-> "Err", err |-> e]
Panic  == [tag |-> "Panic"]

is_ok(r)  == r.tag = "Ok"
is_err(r) == r.tag = "Err"

\* errors::FileReadError (Checksum carries the computed and the recorded value)
NotAFile         == [kind |-> "NotAFile"]
NotFound         == [kind |-> "NotFound"]
CompressionError == [kind |-> "CompressionError"]
Checksum(real, exp) == [kind |-> "Checksum", real |-> real, exp |-> exp]
\* errors::EntryError
NothingFound == [kind |-> "NothingFound"]
PathError    == [kind |-> "PathError"]
\* errors::ListingError
IsFile == [kind |-> "IsFile"]
\* the Other(String) variant of FileReadError, EntryError and ListingError
Other(msg) == [kind |-> "Other", msg |-> msg]

\* format!("{:?}", e) for an errors::EntryError (derived Debug)
DebugEntryError(e) ==
    IF e.kind = "Other" THEN "Other(\"" \o e.msg \o "\")" ELSE e.kind

\* format!("{:?}", e) for the std::io::Error of a short read_exact
DebugShortRead == "Error { kind: UnexpectedEof, message: \"failed to fill whole buffer\" }"

(***************************************************************************)
(* The codecs.  zstd and lz4_compression are libraries outside the         *)
(* repository; each is modelled by a framing that is not the identity and  *)
(* whose decoder rejects a malformed frame.                                *)
(*   ZSTD: first byte of the frame magic (28 hex), content size, payload.  *)
(*   LZ4 : one token whose high nibble is the literal count, then the      *)
(*         literals (a block that is a single literal run).                *)
(***************************************************************************)
CompressionAlgo == {"ZSTD", "LZ4", "NONE"}

zstd_encode_all(buf) == <<40, Len(buf)>> \o buf

zstd_decode_all(buf) ==
    IF Len(buf) >= 2 /\ buf[1] = 40 /\ buf[2] = Len(buf) - 2
    THEN Ok(SubSeq(buf, 3, Len(buf)))
    ELSE Err(CompressionError)

lz4_compress(buf) == <<16 * Len(buf)>> \o buf

lz4_decompress(buf) ==
    IF buf = <<>> THEN Ok(<<>>)
    ELSE IF buf[1] \div 16 = Len(buf) - 1
         THEN Ok(Tail(buf))
         ELSE Err(CompressionError)

\* lib.rs, write_files_dir: the match on f.compression before the checksum
Encode(algo, buf) ==
    CASE algo = "ZSTD" -> zstd_encode_all(buf)
      [] algo = "LZ4"  -> lz4_compress(buf)
      [] algo = "NONE" -> buf

\* Decode with the LZ4 arm returning the stored bytes undecoded
DecodeLz4Raw(algo, buf) ==
    CASE algo = "ZSTD" -> zstd_decode_all(buf)
      [] algo = "LZ4"  -> Ok(buf)
      [] algo = "NONE" -> Ok(buf)

\* lib.rs, QZFile::read_file: the match on self.compression after the checksum
Decode(algo, buf) ==
    CASE algo = "ZSTD" -> zstd_decode_all(buf)
      [] algo = "LZ4"  -> lz4_decompress(buf)
      [] algo = "NONE" -> Ok(buf)

(***************************************************************************)
(* The source directory on the filesystem.  An entry is a regular file     *)
(* with its bytes, a directory with its entries in read_dir order, or an   *)
(* entry that is neither (fifo, socket, device).  Names within one         *)
(* directory are distinct, as a filesystem guarantees.                     *)
(***************************************************************************)
SrcFile(n, d)  == [kind |-> "File", name |-> n, data |-> d]
SrcDir(n, c)   == [kind |-> "Dir", name |-> n, content |-> c]
SrcOther(n)    == [kind |-> "Other", name |-> n]

\* file contents and entry names the model draws from
FileData   == {<<>>, <<119, 111, 33>>}
FileNames  == {"a"}
DirNames   == {"sub"}
OtherNames == {"dev"}
RootName   == "data"

RECURSIVE SrcSize(_)
\* number of entries of the subtree at e, e included
SrcSize(e) ==
    IF e.kind = "Dir"
    THEN 1 + SumSeq([i \in 1..Len(e.content) |-> SrcSize(e.content[i])])
    ELSE 1

RECURSIVE SrcContents(_)
\* the possible contents of a directory holding at most n entries in all
SrcContents(n) ==
    IF n = 0 THEN {<<>>}
    ELSE LET entries ==
                 {SrcFile(x, d) : x \in FileNames, d \in FileData}
                 \cup {SrcOther(x) : x \in OtherNames}
                 \cup {SrcDir(x, c) : x \in DirNames, c \in SrcContents(n - 1)}
         IN  {<<>>} \cup
             UNION {{<<e>> \o rest : rest \in
                         {r \in SrcContents(n - SrcSize(e)) :
                              \A i \in 1..Len(r) : r[i].name # e.name}}
                    : e \in entries}

SourceTrees == {SrcDir(RootName, c) : c \in SrcContents(MaxEntries)}

NoEntry == [kind |-> "None"]

RECURSIVE FsLookup(_, _)
\* the filesystem entry reached from directory d by the names in path, or NoEntry
FsLookup(d, path) ==
    IF path = <<>> THEN d
    ELSE IF d.kind # "Dir" THEN NoEntry
    ELSE LET hits == {i \in 1..Len(d.content) : d.content[i].name = Head(path)}
         IN  IF hits = {} THEN NoEntry
             ELSE FsLookup(d.content[CHOOSE i \in hits : TRUE], Tail(path))

(***************************************************************************)
(* Entry tree of the archive: QZEntry::File(QZFile) and QZEntry::Dir(QZDir)*)
(***************************************************************************)
QZFile(n, c, sum, start, size) ==
    [kind |-> "File", name |-> n, compression |-> c, checksum |-> sum,
     index_start |-> start, index_size |-> size]

QZDir(n, c) == [kind |-> "Dir", name |-> n, content |-> c]

RECURSIVE pack_dir(_, _)
RECURSIVE pack_entries(_, _)
\* the loop of pack_dir over read_dir: files and directories are pushed,
\* an entry that is neither is skipped
pack_entries(paths, compression) ==
    IF paths = <<>> THEN <<>>
    ELSE LET p    == Head(paths)
             rest == pack_entries(Tail(paths), compression)
         IN  IF p.kind = "File"
             THEN <<QZFile(p.name, compression, <<0, 0, 0, 0>>, 0, 0)>> \o rest
             ELSE IF p.kind = "Dir"
                  THEN <<pack_dir(p, compression)>> \o rest
                  ELSE rest

pack_dir(dir, compression) == QZDir(dir.name, pack_entries(dir.content, compression))

RECURSIVE write_files_dir(_, _, _, _)
RECURSIVE write_files_entries(_, _, _, _)
RECURSIVE write_files_late_offset(_, _, _, _)
RECURSIVE write_files_drop_subdir(_, _, _, _)

\* write_files_entries with index_start taken after the bytes are appended
write_files_late_offset(fs, content, path, f_content) ==
    IF content = <<>> THEN [content |-> <<>>, buf |-> f_content]
    ELSE LET e == Head(content)
         IN  IF e.kind = "Dir"
             THEN LET res  == write_files_dir(fs, e, Append(path, e.name), f_content)
                      rest == write_files_late_offset(fs, Tail(content), path, res.buf)
                  IN  [content |-> <<res.dir>> \o rest.content, buf |-> rest.buf]
             ELSE LET buffer == Encode(e.compression,
                                       FsLookup(fs, Append(path, e.name)).data)
                      f      == [e EXCEPT !.index_start = Len(f_content \o buffer),
                                          !.checksum = crc32_hash(buffer),
                                          !.index_size = Len(buffer)]
                      rest   == write_files_late_offset(fs, Tail(content), path,
                                                        f_content \o buffer)
                  IN  [content |-> <<f>> \o rest.content, buf |-> rest.buf]

\* write_files_entries that does not take back the buffer of a sub-directory
write_files_drop_subdir(fs, content, path, f_content) ==
    IF content = <<>> THEN [content |-> <<>>, buf |-> f_content]
    ELSE LET e == Head(content)
         IN  IF e.kind = "Dir"
             THEN LET res  == write_files_dir(fs, e, Append(path, e.name), f_content)
                      rest == write_files_drop_subdir(fs, Tail(content), path, f_content)
                  IN  [content |-> <<res.dir>> \o rest.content, buf |-> rest.buf]
             ELSE LET buffer == Encode(e.compression,
                                       FsLookup(fs, Append(path, e.name)).data)
                      f      == [e EXCEPT !.index_start = Len(f_content),
                                          !.checksum = crc32_hash(buffer),
                                          !.index_size = Len(buffer)]
                      rest   == write_files_drop_subdir(fs, Tail(content), path,
                                                        f_content \o buffer)
                  IN  [content |-> <<f>> \o rest.content, buf |-> rest.buf]

\* the loop of write_files_dir over d.content; yields the updated entries and
\* the content buffer
write_files_entries(fs, content, path, f_content) ==
    IF content = <<>> THEN [content |-> <<>>, buf |-> f_content]
    ELSE LET e == Head(content)
         IN  IF e.kind = "Dir"
             THEN LET res  == write_files_dir(fs, e, Append(path, e.name), f_content)
                      rest == write_files_entries(fs, Tail(content), path, res.buf)
                  IN  [content |-> <<res.dir>> \o rest.content, buf |-> rest.buf]
             ELSE LET buffer == Encode(e.compression,
                                       FsLookup(fs, Append(path, e.name)).data)
                      f      == [e EXCEPT !.index_start = Len(f_content),
                                          !.checksum = crc32_hash(buffer),
                                          !.index_size = Len(buffer)]
                      rest   == write_files_entries(fs, Tail(content), path,
                                                    f_content \o buffer)
                  IN  [content |-> <<f>> \o rest.content, buf |-> rest.buf]

write_files_dir(fs, d, path, f_content) ==
    LET res == write_files_entries(fs, d.content, path, f_content)
    IN  [dir |-> [d EXCEPT !.content = res.content], buf |-> res.buf]

(***************************************************************************)
(* The archive file.  bytes is the whole file: the 8-byte size prefix, the *)
(* header blob and the content region.  The header blob (zstd of the JSON  *)
(* of QZArchiveHeader) is abstracted to two bytes, the first byte of the   *)
(* zstd frame and the first byte of the JSON text; doc is the document an  *)
(* intact blob decodes to.                                                  *)
(***************************************************************************)
RECURSIVE to_ne_bytes(_, _)
\* the k low bytes of n, least significant first
to_ne_bytes(n, k) == IF k = 0 THEN <<>> ELSE <<n % 256>> \o to_ne_bytes(n \div 256, k - 1)

RECURSIVE from_ne_bytes(_)
from_ne_bytes(b) == IF b = <<>> THEN 0 ELSE Head(b) + 256 * from_ne_bytes(Tail(b))

HeaderBlob == <<40, 123>>

QZArchiveHeader(name, info, root) ==
    [name |-> name, info |-> info, version |-> "CARGO_PKG_VERSION", root |-> root]

\* create_archive: the file it leaves at out_file
create_archive(fs, name, description, compression) ==
    LET root   == pack_dir(fs, compression)
        res    == write_files_dir(fs, root, <<>>, <<>>)
        header == HeaderBlob
    IN  [exists |-> TRUE,
         bytes  |-> to_ne_bytes(Len(header), 8) \o header \o res.buf,
         doc    |-> QZArchiveHeader(name, description, res.dir)]

NoFile == [exists |-> FALSE, bytes |-> <<>>, doc |-> QZArchiveHeader("", "", QZDir("", <<>>))]

(***************************************************************************)
(* read_archive: the handle QZArchive{archive_file, header_size, header}   *)
(* or a ReadError with its message.                                        *)
(***************************************************************************)
ReadError(msg) == [msg |-> msg]

QZArchive(size, header) == [header_size |-> size, header |-> header]

read_archive(file) ==
    IF ~file.exists THEN Err(ReadError("failed to open archive file"))
    ELSE IF Len(file.bytes) < 8 THEN Err(ReadError("failed to read header size"))
    ELSE LET size == from_ne_bytes(SubSeq(file.bytes, 1, 8))
         IN  IF Len(file.bytes) < 8 + size
             THEN Err(ReadError("failed to read header"))
             ELSE LET header_buf == SubSeq(file.bytes, 9, 8 + size)
                  IN  IF ~(Len(header_buf) >= 1 /\ header_buf[1] = HeaderBlob[1])
                      THEN Err(ReadError("failed to decompress header"))
                      ELSE IF header_buf # HeaderBlob
                           THEN Err(ReadError("failed to decode header"))
                           ELSE Ok(QZArchive(size, file.doc))

(***************************************************************************)
(* Paths.  std::path::Path::components on a Unix path: a leading separator *)
(* is RootDir, repeated and trailing separators vanish, "." vanishes       *)
(* except at the start of a relative path (CurDir), ".." is ParentDir and  *)
(* every other segment is Normal.                                          *)
(***************************************************************************)
RootDirC   == [t |-> "RootDir"]
CurDirC    == [t |-> "CurDir"]
ParentDirC == [t |-> "ParentDir"]
Normal(n)  == [t |-> "Normal", name |-> n]

RECURSIVE Segments(_)
\* the tokens of a path that are not separators
Segments(path) ==
    IF path = <<>> THEN <<>>
    ELSE IF Head(path) = "/" THEN Segments(Tail(path))
         ELSE <<Head(path)>> \o Segments(Tail(path))

RECURSIVE SegComponents(_)
RECURSIVE SegComponents_keep_dot(_)

\* components that yields CurDir for every "." segment
SegComponents_keep_dot(segs) ==
    IF segs = <<>> THEN <<>>
    ELSE IF Head(segs) = "." THEN <<CurDirC>> \o SegComponents_keep_dot(Tail(segs))
         ELSE IF Head(segs) = ".." THEN <<ParentDirC>> \o SegComponents_keep_dot(Tail(segs))
              ELSE <<Normal(Head(segs))>> \o SegComponents_keep_dot(Tail(segs))

SegComponents(segs) ==
    IF segs = <<>> THEN <<>>
    ELSE IF Head(segs) = "." THEN SegComponents(Tail(segs))
         ELSE IF Head(segs) = ".." THEN <<ParentDirC>> \o SegComponents(Tail(segs))
              ELSE <<Normal(Head(segs))>> \o SegComponents(Tail(segs))

components(path) ==
    LET segs == Segments(path)
    IN  IF path # <<>> /\ Head(path) = "/"
        THEN <<RootDirC>> \o SegComponents(segs)
        ELSE IF segs # <<>> /\ Head(segs) = "."
             THEN <<CurDirC>> \o SegComponents(Tail(segs))
             ELSE SegComponents(segs)

\* get_path that hands the path on as it was given
get_path_verbatim(path) == path

\* QZArchive::get_path: format!("/{path}")
get_path(path) == <<"/">> \o path

RECURSIVE FirstMatch(_, _, _)
\* index of the first entry of content, from i on, whose name is n; 0 if none
FirstMatch(content, n, i) ==
    IF i > Len(content) THEN 0
    ELSE IF content[i].name = n THEN i
         ELSE FirstMatch(content, n, i + 1)

RECURSIVE _get_entry(_, _)
RECURSIVE _get_entry_no_error(_, _)

\* _get_entry that yields the current directory when no child has the name
_get_entry_no_error(comp, current_entry) ==
    IF current_entry.kind = "Dir"
    THEN IF comp = <<>> THEN Ok(current_entry)
         ELSE IF Head(comp).t = "Normal"
              THEN LET i == FirstMatch(current_entry.content, Head(comp).name, 1)
                   IN  IF i = 0 THEN Ok(current_entry)
                       ELSE IF current_entry.content[i].kind = "Dir"
                            THEN _get_entry_no_error(Tail(comp), current_entry.content[i])
                            ELSE Ok(current_entry.content[i])
              ELSE Err(PathError)
    ELSE Err(Other(""))

\* QZArchive::_get_entry: comp is what the Components iterator still holds
_get_entry(comp, current_entry) ==
    IF current_entry.kind = "Dir"
    THEN IF comp = <<>> THEN Ok(current_entry)
         ELSE IF Head(comp).t = "Normal"
              THEN LET i == FirstMatch(current_entry.content, Head(comp).name, 1)
                   IN  IF i = 0 THEN Err(NothingFound)
                       ELSE IF current_entry.content[i].kind = "Dir"
                            THEN _get_entry(Tail(comp), current_entry.content[i])
                            ELSE Ok(current_entry.content[i])
              ELSE Err(PathError)
    ELSE Err(Other(""))

\* QZArchive::get_entry
get_entry(self, path) ==
    LET path_c == components(get_path(path))
    IN  IF path_c # <<>> /\ Head(path_c) = RootDirC
        THEN _get_entry(Tail(path_c), self.header.root)
        ELSE Err(Other(""))

(***************************************************************************)
(* Retrieval.  file is the archive file as it is on disk at the call.      *)
(***************************************************************************)
\* QZFile_read_file without the comparison of the checksum
QZFile_read_file_unchecked(self, file, offset) ==
    IF ~file.exists THEN Panic
    ELSE LET start == offset + self.index_start
         IN  IF self.index_size > 0 /\ Len(file.bytes) < start + self.index_size
             THEN Err(Other(DebugShortRead))
             ELSE Decode(self.compression,
                         SubSeq(file.bytes, start + 1, start + self.index_size))

\* QZFile::read_file(&self, archive, offset)
QZFile_read_file(self, file, offset) ==
    IF ~file.exists THEN Panic
    ELSE LET start == offset + self.index_start
         IN  IF self.index_size > 0 /\ Len(file.bytes) < start + self.index_size
             THEN Err(Other(DebugShortRead))
             ELSE LET read_buf == SubSeq(file.bytes, start + 1, start + self.index_size)
                      hash     == crc32_hash(read_buf)
                  IN  IF hash # self.checksum
                      THEN Err(Checksum(hash, self.checksum))
                      ELSE Decode(self.compression, read_buf)

\* QZFile_is_valid that passes every failure other than a checksum mismatch
QZFile_is_valid_lenient(self, file, offset) ==
    LET res == QZFile_read_file(self, file, offset)
    IN  IF res.tag = "Panic" THEN Panic
        ELSE IF is_ok(res) THEN Ok(<<>>)
        ELSE IF res.err.kind = "Checksum" THEN Err(Checksum(res.err.real, res.err.exp))
        ELSE Ok(<<>>)

\* QZFile::is_valid(&self, archive, offset)
QZFile_is_valid(self, file, offset) ==
    LET res == QZFile_read_file(self, file, offset)
    IN  IF res.tag = "Panic" THEN Panic
        ELSE IF is_ok(res) THEN Ok(<<>>)
        ELSE IF res.err.kind = "Checksum" THEN Err(Checksum(res.err.real, res.err.exp))
        ELSE Err(Other(""))

\* read_file that reports a directory as a missing file
read_file_dir_not_found(self, file, path) ==
    LET path_c == components(get_path(path))
    IN  IF path_c # <<>> /\ Head(path_c) = RootDirC
        THEN LET res == _get_entry(Tail(path_c), self.header.root)
             IN  IF is_err(res) THEN Err(Other(DebugEntryError(res.err)))
                 ELSE IF res.val.kind = "Dir" THEN Err(NotFound)
                 ELSE QZFile_read_file(res.val, file, self.header_size + 8)
        ELSE Err(NotFound)

\* QZArchive::read_file
read_file(self, file, path) ==
    LET path_c == components(get_path(path))
    IN  IF path_c # <<>> /\ Head(path_c) = RootDirC
        THEN LET res == _get_entry(Tail(path_c), self.header.root)
             IN  IF is_err(res) THEN Err(Other(DebugEntryError(res.err)))
                 ELSE IF res.val.kind = "Dir" THEN Err(NotAFile)
                 ELSE QZFile_read_file(res.val, file, self.header_size + 8)
        ELSE Err(NotFound)

\* QZArchive::check_file
check_file(self, file, path) ==
    LET path_c == components(get_path(path))
    IN  IF path_c # <<>> /\ Head(path_c) = RootDirC
        THEN LET res == _get_entry(Tail(path_c), self.header.root)
             IN  IF is_err(res) THEN Err(Other(DebugEntryError(res.err)))
                 ELSE IF res.val.kind = "Dir" THEN Err(NotAFile)
                 ELSE QZFile_is_valid(res.val, file, self.header_size + 8)
        ELSE Err(NotFound)

\* ls that lists the files of a directory only
ls_files_only(self, path) ==
    LET path_c == components(get_path(path))
    IN  IF path_c # <<>> /\ Head(path_c) = RootDirC
        THEN LET res == _get_entry(Tail(path_c), self.header.root)
             IN  IF is_err(res) THEN Err(Other(DebugEntryError(res.err)))
                 ELSE IF res.val.kind = "Dir"
                      THEN Ok(LET files == SelectSeq(res.val.content,
                                                     LAMBDA e : e.kind = "File")
                              IN  [i \in 1..Len(files) |-> files[i].name])
                      ELSE Err(IsFile)
        ELSE Ok(<<>>)

\* QZArchive::ls
ls(self, path) ==
    LET path_c == components(get_path(path))
    IN  IF path_c # <<>> /\ Head(path_c) = RootDirC
        THEN LET res == _get_entry(Tail(path_c), self.header.root)
             IN  IF is_err(res) THEN Err(Other(DebugEntryError(res.err)))
                 ELSE IF res.val.kind = "Dir"
                      THEN Ok([i \in 1..Len(res.val.content) |-> res.val.content[i].name])
                      ELSE Err(IsFile)
        ELSE Ok(<<>>)

(***************************************************************************)
(* The state machine.                                                       *)
(*   pc      : "start" (nothing packed), "packed" (archive written),       *)
(*             "opened" (a handle exists), "aborted" (the process died)    *)
(*   src     : the source directory                                        *)
(*   codec   : the compression the archive is created with                 *)
(*   disk    : the archive file as it is now                               *)
(*   archive : the handle of the last successful read_archive              *)
(*   last    : the library call the caller holds the outcome of: its name, *)
(*             its path and its outcome; NoCall between calls              *)
(*   packed  : the bytes of the archive file as create_archive wrote them  *)
(*   damage  : number of damaging events on the archive file so far        *)
(*   sweep   : the run of the test subcommand: where it stands ("idle",    *)
(*             "running", "ok" after printing "Everything ok", "failed"    *)
(*             after exit(1), "aborted" after a panic), the entries its    *)
(*             loops have still to visit, the files whose check succeeded, *)
(*             and the damage report it printed                            *)
(***************************************************************************)
NoArchive == QZArchive(0, NoFile.doc)
NoCall == [op |-> "none", path |-> <<>>, res |-> Ok(<<>>)]
Call(op, path, res) == [op |-> op, path |-> path, res |-> res]

NoReport == [path |-> <<>>, exp |-> <<>>, real |-> <<>>]
NoSweep == [st |-> "idle", stack |-> <<>>, checked |-> <<>>, out |-> NoReport]

RECURSIVE SrcPaths(_)
\* the name sequences that lead from directory d to an entry below it
SrcPaths(d) ==
    UNION {{<<d.content[i].name>>} \cup
           (IF d.content[i].kind = "Dir"
            THEN {<<d.content[i].name>> \o p : p \in SrcPaths(d.content[i])}
            ELSE {})
           : i \in 1..Len(d.content)}

RECURSIVE PathOf(_)
\* the path string of a name sequence: "/" for the root, "/n1/n2" below it
PathOf(names) ==
    IF names = <<>> THEN <<"/">>
    ELSE IF Len(names) = 1 THEN <<"/", names[1]>>
         ELSE <<"/", Head(names)>> \o PathOf(Tail(names))

\* the paths the caller asks for: every entry of the source directory, and
\* below each of them a name that no directory holds
QueryNames == {<<>>} \cup SrcPaths(src)
QueryPaths ==
    {PathOf(n) : n \in QueryNames} \cup {PathOf(n) \o <<"/", "zz">> : n \in QueryNames}

\* the amounts a damaged byte is off by
Deltas == {1}

Init ==
    /\ pc = "start"
    /\ src \in SourceTrees
    /\ codec \in CompressionAlgo
    /\ disk = NoFile
    /\ archive = NoArchive
    /\ last = NoCall
    /\ packed = <<>>
    /\ damage = 0
    /\ sweep = NoSweep

\* create_archive(dir, out_file, name, description, compression)
CreateArchive ==
    /\ pc = "start"
    /\ last = NoCall
    /\ disk' = create_archive(src, "qz", "", codec)
    /\ packed' = disk'.bytes
    /\ pc' = "packed"
    /\ last' = Call("create_archive", <<>>, Ok(<<>>))
    /\ UNCHANGED <<src, codec, archive, damage, sweep>>

\* read_archive(path)
ReadArchive ==
    /\ pc \in {"packed", "opened"}
    /\ last = NoCall
    /\ LET res == read_archive(disk)
       IN  /\ last' = Call("read_archive", <<>>, res)
           /\ IF is_ok(res)
              THEN archive' = res.val /\ pc' = "opened"
              ELSE UNCHANGED <<archive, pc, sweep>>
    /\ UNCHANGED <<src, codec, disk, packed, damage, sweep>>

\* a retrieval or lookup call on the handle; a panic ends the process
Retrieve(op, path, res) ==
    /\ pc = "opened"
    /\ last = NoCall
    /\ last' = Call(op, path, res)
    /\ pc' = IF res.tag = "Panic" THEN "aborted" ELSE pc
    /\ UNCHANGED <<src, codec, disk, archive, packed, damage, sweep>>

ReadFile(path)  == Retrieve("read_file", path, read_file(archive, disk, path))
CheckFile(path) == Retrieve("check_file", path, check_file(archive, disk, path))
GetEntry(path)  == Retrieve("get_entry", path, get_entry(archive, path))
Ls(path)        == Retrieve("ls", path, ls(archive, path))

\* the environment changes one byte of the header blob or the content region
CorruptByte(i, d) ==
    /\ pc \in {"packed", "opened"}
    /\ last = NoCall
    /\ disk.exists
    /\ damage < MaxDamage
    /\ i \in 9..Len(disk.bytes)
    /\ disk' = [disk EXCEPT !.bytes[i] = (@ + d) % 256]
    /\ damage' = damage + 1
    /\ UNCHANGED <<pc, src, codec, archive, last, packed, sweep>>

\* the environment overwrites a run of consecutive bytes.  CRC-32 detects
\* every run of at most four damaged bytes; Bursts holds a longer one.
Bursts == {<<41, 149, 71, 104, 86>>}

OverwriteBurst(i, b) ==
    /\ pc \in {"packed", "opened"}
    /\ last = NoCall
    /\ disk.exists
    /\ damage < MaxDamage
    /\ i >= 9
    /\ i + Len(b) - 1 <= Len(disk.bytes)
    /\ disk' = [disk EXCEPT !.bytes =
                    [k \in 1..Len(@) |-> IF k >= i /\ k < i + Len(b) THEN b[k - i + 1] ELSE @[k]]]
    /\ damage' = damage + 1
    /\ UNCHANGED <<pc, src, codec, archive, last, packed, sweep>>

\* the environment cuts the archive file down to n bytes
Truncate(n) ==
    /\ pc \in {"packed", "opened"}
    /\ last = NoCall
    /\ disk.exists
    /\ damage < MaxDamage
    /\ n < Len(disk.bytes)
    /\ disk' = [disk EXCEPT !.bytes = SubSeq(@, 1, n)]
    /\ damage' = damage + 1
    /\ UNCHANGED <<pc, src, codec, archive, last, packed, sweep>>

\* the environment removes the archive file or makes it unreadable
RemoveFile ==
    /\ pc \in {"packed", "opened"}
    /\ last = NoCall
    /\ disk.exists
    /\ disk' = [disk EXCEPT !.exists = FALSE, !.bytes = <<>>]
    /\ UNCHANGED <<pc, src, codec, archive, last, packed, damage, sweep>>

\* the caller is done with the outcome of its last call
DropResult ==
    /\ pc # "aborted"
    /\ last # NoCall
    /\ last' = NoCall
    /\ UNCHANGED <<pc, src, codec, disk, archive, packed, damage, sweep>>

\* lengths the archive file is cut down to: part of the prefix, the prefix
\* only, and all but the last byte
CutPoints == {4, 8, Len(disk.bytes) - 1}

\* the caller holds no outcome and the archive file can be acted on
Idle == last = NoCall /\ pc \in {"packed", "opened"}

ReadFileCall  == Idle /\ \E p \in QueryPaths : ReadFile(p)
CheckFileCall == Idle /\ \E p \in QueryPaths : CheckFile(p)
GetEntryCall  == Idle /\ \E p \in QueryPaths : GetEntry(p)
LsCall        == Idle /\ \E p \in QueryPaths : Ls(p)
CorruptAny    == Idle /\ \E i \in 1..Len(disk.bytes), d \in Deltas : CorruptByte(i, d)
OverwriteAny  == Idle /\ \E i \in 1..Len(disk.bytes), b \in Bursts : OverwriteBurst(i, b)
TruncateAny   == Idle /\ \E n \in CutPoints : Truncate(n)

Next ==
    \/ CreateArchive
    \/ ReadArchive
    \/ ReadFileCall
    \/ CheckFileCall
    \/ GetEntryCall
    \/ LsCall
    \/ CorruptAny
    \/ OverwriteAny
    \/ TruncateAny
    \/ RemoveFile
    \/ DropResult

Spec == Init /\ [][Next]_vars


(***************************************************************************)
(* The test subcommand (main.rs): read_archive(..).unwrap(), then          *)
(* check_recursive(&a, "/"), then "Everything ok".  The recursion and its  *)
(* for loops are kept as the sequence of entries still to visit, each with *)
(* the directory path it was listed in; one step visits the first of them. *)
(* The archive file can be damaged before the run and between its steps.   *)
(***************************************************************************)
\* std::path::Path::new(path).join(f) for a relative f
join(path, f) ==
    IF path # <<>> /\ path[Len(path)] = "/" THEN path \o <<f>> ELSE path \o <<"/", f>>

\* check_recursive(a, path) up to its loop: a.ls(path).unwrap()
check_recursive(a, path, sw) ==
    LET dir_content == ls(a, path)
    IN  IF ~is_ok(dir_content) THEN [sw EXCEPT !.st = "aborted"]
        ELSE [sw EXCEPT !.st = "running",
                        !.stack = [i \in 1..Len(dir_content.val) |->
                                       [dir |-> path, f |-> dir_content.val[i]]] \o @]

\* loop body that reports a damaged file and goes on with the next entry
check_entry_keep_going(a, file, sw) ==
    LET item  == Head(sw.stack)
        rest  == [sw EXCEPT !.stack = Tail(@)]
        entry == get_entry(a, join(item.dir, item.f))
    IN  IF ~is_ok(entry) THEN [sw EXCEPT !.st = "aborted"]
        ELSE IF entry.val.kind = "Dir"
             THEN check_recursive(a, join(item.dir, entry.val.name), rest)
             ELSE LET f_path == join(item.dir, entry.val.name)
                      res    == check_file(a, file, f_path)
                  IN  IF res.tag = "Panic" THEN [sw EXCEPT !.st = "aborted"]
                      ELSE IF is_err(res)
                           THEN IF res.err.kind = "Checksum"
                                THEN [rest EXCEPT !.out = [path |-> f_path,
                                                           exp  |-> res.err.exp,
                                                           real |-> res.err.real]]
                                ELSE rest
                           ELSE [rest EXCEPT !.checked = Append(@, f_path)]

\* one pass of the loop body of check_recursive, for the first entry to visit
check_entry(a, file, sw) ==
    LET item  == Head(sw.stack)
        rest  == [sw EXCEPT !.stack = Tail(@)]
        entry == get_entry(a, join(item.dir, item.f))
    IN  IF ~is_ok(entry) THEN [sw EXCEPT !.st = "aborted"]
        ELSE IF entry.val.kind = "Dir"
             THEN check_recursive(a, join(item.dir, entry.val.name), rest)
             ELSE LET f_path == join(item.dir, entry.val.name)
                      res    == check_file(a, file, f_path)
                  IN  IF res.tag = "Panic" THEN [sw EXCEPT !.st = "aborted"]
                      ELSE IF is_err(res)
                           THEN [sw EXCEPT !.st = "failed",
                                           !.out = IF res.err.kind = "Checksum"
                                                   THEN [path |-> f_path,
                                                         exp  |-> res.err.exp,
                                                         real |-> res.err.real]
                                                   ELSE NoReport]
                           ELSE [rest EXCEPT !.checked = Append(@, f_path)]

\* the process of the subcommand is over
Ended(sw) == sw.st \in {"ok", "failed", "aborted"}

\* qz test ARCHIVE: read_archive(archive_file).unwrap(); check_recursive(&a, "/")
TestStart ==
    /\ pc = "packed"
    /\ last = NoCall
    /\ sweep.st = "idle"
    /\ LET res == read_archive(disk)
       IN  IF is_ok(res)
           THEN /\ archive' = res.val
                /\ sweep' = check_recursive(res.val, <<"/">>, sweep)
                /\ pc' = IF Ended(sweep') THEN "aborted" ELSE "opened"
           ELSE /\ sweep' = [sweep EXCEPT !.st = "aborted"]
                /\ pc' = "aborted"
                /\ UNCHANGED archive
    /\ UNCHANGED <<src, codec, disk, last, packed, damage>>

\* the next entry of the innermost loop
TestVisit ==
    /\ pc = "opened"
    /\ sweep.st = "running"
    /\ sweep.stack # <<>>
    /\ sweep' = check_entry(archive, disk, sweep)
    /\ pc' = IF Ended(sweep') THEN "aborted" ELSE pc
    /\ UNCHANGED <<src, codec, disk, archive, last, packed, damage>>

\* every loop is through: println!("Everything ok")
TestFinish ==
    /\ pc = "opened"
    /\ sweep.st = "running"
    /\ sweep.stack = <<>>
    /\ sweep' = [sweep EXCEPT !.st = "ok"]
    /\ pc' = "aborted"
    /\ UNCHANGED <<src, codec, disk, archive, last, packed, damage>>

TestNext ==
    \/ CreateArchive
    \/ DropResult
    \/ CorruptAny
    \/ OverwriteAny
    \/ TruncateAny
    \/ RemoveFile
    \/ TestStart
    \/ TestVisit
    \/ TestFinish

TestSpec == Init /\ [][TestNext]_vars

(***************************************************************************)
(* What the properties below speak about.                                  *)
(***************************************************************************)
\* the name sequences of the regular files and of the directories of src
SrcFilePaths == {n \in SrcPaths(src) : FsLookup(src, n).kind = "File"}
SrcDirPaths  == {<<>>} \cup {n \in SrcPaths(src) : FsLookup(src, n).kind = "Dir"}

\* the archive file is as create_archive wrote it
Intact == disk.exists /\ disk.bytes = packed

(***************************************************************************)
(* C1 -- Round trip: after create_archive and read_archive, read_file on   *)
(* the path of every regular file of the source directory returns exactly  *)
(* the bytes of that file, whatever the compression algorithm.             *)
(***************************************************************************)
RoundTrip ==
    (last.op = "read_file" /\ Intact) =>
        \A n \in SrcFilePaths :
            last.path = PathOf(n) => last.res = Ok(FsLookup(src, n).data)

\* a compressed, non-empty file below a sub-directory has been read back
RoundTripWitness ==
    /\ last.op = "read_file"
    /\ Intact
    /\ codec = "LZ4"
    /\ Len(last.path) = 4
    /\ last.res = Ok(<<119, 111, 33>>)

(***************************************************************************)
(* The stored region of a file, from the entry tree create_archive wrote.  *)
(***************************************************************************)
\* where the content region starts in the archive file (0-based)
ContentBase == 8 + Len(HeaderBlob)

\* the entry at a name sequence in the tree create_archive wrote
PackedEntry(n) == FsLookup(disk.doc.root, n)

\* the positions (1-based) of the archive file that hold the stored bytes of n
Region(n) ==
    LET f == PackedEntry(n)
    IN  (ContentBase + f.index_start + 1)..(ContentBase + f.index_start + f.index_size)

\* the positions at which the archive file differs from what was written
Changed == {i \in 1..Len(packed) : disk.bytes[i] # packed[i]}

\* exactly one byte of the archive file was changed, inside the region of n
OneByteChangedIn(n) ==
    /\ disk.exists
    /\ Len(disk.bytes) = Len(packed)
    /\ Cardinality(Changed) = 1
    /\ Changed \subseteq Region(n)

(***************************************************************************)
(* C2 -- Checksum detection: when one byte inside the stored region of a   *)
(* file was changed, read_file and check_file on that file's path fail     *)
(* with Checksum(actual, expected), expected being the checksum recorded   *)
(* at pack time and actual, the checksum of the bytes now stored, being    *)
(* different from it.                                                      *)
(***************************************************************************)
ChecksumDetection ==
    (last.op \in {"read_file", "check_file"} /\ ~Intact) =>
        \A n \in SrcFilePaths :
            (last.path = PathOf(n) /\ OneByteChangedIn(n)) =>
                /\ is_err(last.res)
                /\ last.res.err.kind = "Checksum"
                /\ last.res.err.exp = PackedEntry(n).checksum
                /\ last.res.err.real # last.res.err.exp
                /\ last.res.err.real =
                       crc32_hash([k \in 1..PackedEntry(n).index_size |->
                                       disk.bytes[ContentBase + PackedEntry(n).index_start + k]])

\* read_file has been called on a file one byte of which was changed
ChecksumDetectionWitness ==
    /\ last.op = "read_file"
    /\ \E n \in SrcFilePaths : last.path = PathOf(n) /\ OneByteChangedIn(n)
    /\ is_err(last.res)
    /\ codec = "NONE"

(***************************************************************************)
(* C3 -- Corruption isolation: when one byte inside the stored region of   *)
(* one file was changed, check_file fails with a checksum mismatch on that *)
(* file and succeeds on every other file of the archive.                   *)
(***************************************************************************)
CorruptionIsolation ==
    (last.op = "check_file" /\ ~Intact) =>
        \A m, n \in SrcFilePaths :
            (OneByteChangedIn(m) /\ last.path = PathOf(n)) =>
                IF n = m
                THEN is_err(last.res) /\ last.res.err.kind = "Checksum"
                ELSE last.res = Ok(<<>>)

\* check_file succeeded on a non-empty file while another file is damaged
CorruptionIsolationWitness ==
    /\ last.op = "check_file"
    /\ last.res = Ok(<<>>)
    /\ \E m, n \in SrcFilePaths :
          /\ m # n
          /\ OneByteChangedIn(m)
          /\ last.path = PathOf(n)
          /\ PackedEntry(n).index_size > 0

(***************************************************************************)
(* C9 -- Offset bookkeeping: after create_archive, for the file entries in *)
(* depth-first child order, index_start is the sum of index_size of the    *)
(* entries before it, index_size is the length of the encoded bytes,       *)
(* checksum is the checksum of the encoded bytes, the encoded bytes lie at *)
(* that range of the content region, and the content region is as long as  *)
(* the sum of all index_size: the ranges neither overlap nor leave a gap.  *)
(***************************************************************************)
RECURSIVE DfsFiles(_, _)
\* the file entries below content in depth-first child order, with their paths
DfsFiles(content, prefix) ==
    IF content = <<>> THEN <<>>
    ELSE LET e == Head(content)
         IN  (IF e.kind = "Dir"
              THEN DfsFiles(e.content, Append(prefix, e.name))
              ELSE <<[path |-> Append(prefix, e.name), f |-> e]>>)
             \o DfsFiles(Tail(content), prefix)

OffsetBookkeeping ==
    last.op = "create_archive" =>
        LET files  == DfsFiles(disk.doc.root.content, <<>>)
            sizes  == [k \in 1..Len(files) |-> files[k].f.index_size]
            region == SubSeq(packed, ContentBase + 1, Len(packed))
        IN  /\ Len(region) = SumSeq(sizes)
            /\ \A k \in 1..Len(files) :
                  LET f       == files[k].f
                      encoded == Encode(codec, FsLookup(src, files[k].path).data)
                  IN  /\ f.index_start = SumSeq(SubSeq(sizes, 1, k - 1))
                      /\ f.index_size = Len(encoded)
                      /\ f.checksum = crc32_hash(encoded)
                      /\ SubSeq(region, f.index_start + 1, f.index_start + f.index_size)
                             = encoded

\* an archive was written whose second file follows the file of a sub-directory
OffsetBookkeepingWitness ==
    /\ last.op = "create_archive"
    /\ LET files == DfsFiles(disk.doc.root.content, <<>>)
       IN  /\ Len(files) >= 2
           /\ Len(files[1].path) = 2
           /\ files[2].f.index_start > 0

(***************************************************************************)
(* C4 -- Listing completeness.  As claimed: ls on every directory path     *)
(* returns exactly the names of the immediate filesystem entries of the    *)
(* source directory at that path.                                          *)
(***************************************************************************)
ListingAllEntries ==
    last.op = "ls" =>
        \A n \in SrcDirPaths :
            last.path = PathOf(n) =>
                /\ is_ok(last.res)
                /\ Range(last.res.val) = {e.name : e \in Range(FsLookup(src, n).content)}

(***************************************************************************)
(* C4, amended -- ls on every directory path returns exactly the names of  *)
(* the immediate entries of the source directory at that path that are     *)
(* regular files or directories, each once; entries of any other type are  *)
(* left out.                                                               *)
(***************************************************************************)
ListingFilesAndDirs ==
    last.op = "ls" =>
        \A n \in SrcDirPaths :
            last.path = PathOf(n) =>
                LET kept == {e \in Range(FsLookup(src, n).content) :
                                 e.kind \in {"File", "Dir"}}
                IN  /\ is_ok(last.res)
                    /\ Range(last.res.val) = {e.name : e \in kept}
                    /\ Len(last.res.val) = Cardinality(kept)

\* a sub-directory holding a file and a directory was listed
ListingWitness ==
    /\ last.op = "ls"
    /\ Len(last.path) = 2
    /\ is_ok(last.res)
    /\ Len(last.res.val) = 2

(***************************************************************************)
(* C5 -- Type confusion: read_file and check_file on the path of a         *)
(* directory fail with NotAFile; ls on the path of a file fails with       *)
(* IsFile.                                                                 *)
(***************************************************************************)
TypeConfusion ==
    /\ last.op \in {"read_file", "check_file"} =>
           \A n \in SrcDirPaths : last.path = PathOf(n) => last.res = Err(NotAFile)
    /\ last.op = "ls" =>
           \A n \in SrcFilePaths : last.path = PathOf(n) => last.res = Err(IsFile)

\* read_file was called on a sub-directory
TypeConfusionWitness ==
    /\ last.op = "read_file"
    /\ \E n \in SrcDirPaths : n # <<>> /\ last.path = PathOf(n)
    /\ last.res = Err(NotAFile)

(***************************************************************************)
(* C6 -- Missing path.  A path is missing when it names, in a directory of *)
(* the archive, a child the directory does not hold.  As claimed:          *)
(* read_file on a missing path fails with NotFound, get_entry and ls fail  *)
(* with NothingFound.                                                      *)
(***************************************************************************)
MissingPaths ==
    {PathOf(n) \o <<"/", "zz">> : n \in SrcDirPaths}
    \cup {PathOf(n) : n \in {m \in SrcPaths(src) : FsLookup(src, m).kind = "Other"}}

CheckSameAsRead ==
    last.op = "check_file" =>
        LET r == read_file(archive, disk, last.path)
            c == last.res
        IN  /\ c.tag = r.tag
            /\ is_err(r) =>
                   /\ c.err.kind = r.err.kind
                   /\ r.err.kind = "Checksum" => c.err = r.err

(***************************************************************************)
(* C7, amended -- check_file succeeds exactly when read_file succeeds and  *)
(* aborts exactly when read_file aborts; when read_file fails with         *)
(* NotAFile, with a resolution failure or with Checksum, check_file fails  *)
(* with the same error and values; when read_file fails with               *)
(* CompressionError or with a failed read of the stored bytes, check_file  *)
(* fails with Other carrying an empty message.                             *)
(***************************************************************************)
CheckFollowsRead ==
    last.op = "check_file" =>
        LET r == read_file(archive, disk, last.path)
            c == last.res
        IN  /\ c.tag = r.tag
            /\ is_err(r) =>
                   IF r.err = CompressionError \/ r.err = Other(DebugShortRead)
                   THEN c.err = Other("")
                   ELSE c.err = r.err

\* check_file was called on a file whose stored bytes pass the checksum and
\* are rejected by the decoder
CheckFollowsReadWitness ==
    /\ last.op = "check_file"
    /\ read_file(archive, disk, last.path) = Err(CompressionError)
    /\ last.res = Err(Other(""))

(***************************************************************************)
(* C8 -- Propagation policy: read_archive, read_file, check_file,          *)
(* get_entry and ls return to their caller, with a value or a typed        *)
(* failure, in every state of the archive file; none of them aborts the    *)
(* process.                                                                *)
(***************************************************************************)
NeverAborts ==
    last.op \in {"read_archive", "read_file", "check_file", "get_entry", "ls"} =>
        last.res.tag # "Panic"

(***************************************************************************)
(* C10 -- Resolution past a file: a path that continues after the path of  *)
(* a file does not resolve; get_entry, read_file, check_file and ls fail   *)
(* on it.                                                                  *)
(***************************************************************************)
PastFileFails ==
    last.op \in {"get_entry", "read_file", "check_file", "ls"} =>
        \A n \in SrcFilePaths :
            (last.path = PathOf(n) \o <<"/", "zz">> /\ Intact) =>
                is_err(last.res)

(***************************************************************************)
(* Path resolution on an undamaged archive.  The caller asks for every     *)
(* entry of the source directory under the spellings a path string can     *)
(* take: with and without the leading separator, with a doubled separator, *)
(* with "." and ".." segments, and with a name no directory holds.         *)
(***************************************************************************)
PathSpellings(n) ==
    LET p == PathOf(n)
    IN  { p, Tail(p), Tail(p) \o <<"/", "zz">>, <<"zz">>,
          <<"/">> \o p,
          <<"/", ".">> \o p, p \o <<"/", ".">>, <<".">> \o p,
          p \o <<"/", "..">>, p \o <<"/", "..", "/", "a">>,
          p \o <<"/", "zz", "/", "..">> }

PathQueries == UNION {PathSpellings(n) : n \in QueryNames}

ReadFilePath  == Idle /\ \E p \in PathQueries : ReadFile(p)
CheckFilePath == Idle /\ \E p \in PathQueries : CheckFile(p)
GetEntryPath  == Idle /\ \E p \in PathQueries : GetEntry(p)
LsPath        == Idle /\ \E p \in PathQueries : Ls(p)

PathNext ==
    \/ CreateArchive
    \/ ReadArchive
    \/ ReadFilePath
    \/ CheckFilePath
    \/ GetEntryPath
    \/ LsPath
    \/ DropResult

PathSpec == Init /\ [][PathNext]_vars

\* the calls that resolve a path, and what each returns in the current state
ResolveOps == {"get_entry", "read_file", "check_file", "ls"}

Outcome(op, path) ==
    CASE op = "get_entry"  -> get_entry(archive, path)
      [] op = "read_file"  -> read_file(archive, disk, path)
      [] op = "check_file" -> check_file(archive, disk, path)
      [] op = "ls"         -> ls(archive, path)

\* the path string does not start with the separator
Unrooted(path) == path = <<>> \/ Head(path) # "/"

(***************************************************************************)
(* C11 -- Rooted-path requirement.  As claimed: get_entry, read_file,      *)
(* check_file and ls fail on a path that does not start with "/",          *)
(* read_file with NotFound, and none of them resolves to an entry.         *)
(***************************************************************************)
UnrootedFails ==
    (last.op \in ResolveOps /\ Unrooted(last.path)) =>
        /\ is_err(last.res)
        /\ last.op = "read_file" => last.res = Err(NotFound)

(***************************************************************************)
(* C11, amended -- a path that does not start with "/" is resolved as the  *)
(* same path with "/" put in front of it: each call returns what it        *)
(* returns on the rooted path, get_entry on the unrooted path of a packed  *)
(* entry returns that entry, and NotFound is not returned.                 *)
(***************************************************************************)
UnrootedAsRooted ==
    (last.op \in ResolveOps /\ Unrooted(last.path)) =>
        /\ last.res = Outcome(last.op, <<"/">> \o last.path)
        /\ last.res # Err(NotFound)
        /\ \A n \in SrcFilePaths \cup SrcDirPaths :
               (last.op = "get_entry" /\ last.path = Tail(PathOf(n))) =>
                   last.res = Ok(FsLookup(archive.header.root, n))

\* read_file on the unrooted path of a file returned the file's bytes
UnrootedWitness ==
    /\ last.op = "read_file"
    /\ last.path = <<"sub", "/", "a">>
    /\ last.res = Ok(<<119, 111, 33>>)

(***************************************************************************)
(* C12 -- Malformed path components.  As claimed: resolution of a path     *)
(* that holds a "." or a ".." segment fails with PathError, whatever the   *)
(* tree contains.                                                          *)
(***************************************************************************)
HasSpecial(path) == \E i \in 1..Len(path) : path[i] \in {".", ".."}

PathErrorOf(op) == IF op = "get_entry" THEN Err(PathError) ELSE Err(Other("PathError"))

MalformedPathError ==
    (last.op \in ResolveOps /\ HasSpecial(last.path)) =>
        last.res = PathErrorOf(last.op)

(***************************************************************************)
(* C12, amended -- a "." segment and a repeated separator are dropped      *)
(* from the path, which resolves as the path without them; a ".." segment  *)
(* that follows the path of a directory fails with PathError in get_entry  *)
(* and with the Other kind carrying the text "PathError" in read_file,     *)
(* check_file and ls.                                                      *)
(***************************************************************************)
DotDroppedParentRejected ==
    last.op \in ResolveOps =>
        \A n \in QueryNames :
            /\ last.path \in {<<"/", ".">> \o PathOf(n), PathOf(n) \o <<"/", ".">>,
                              <<".">> \o PathOf(n), <<"/">> \o PathOf(n)} =>
                   last.res = Outcome(last.op, PathOf(n))
            /\ (n \in SrcDirPaths /\
                last.path \in {PathOf(n) \o <<"/", "..">>,
                               PathOf(n) \o <<"/", "..", "/", "a">>}) =>
                   last.res = PathErrorOf(last.op)

\* get_entry met a ".." segment right after the path of a directory
ParentRejectedWitness ==
    /\ last.op = "get_entry"
    /\ last.path = <<"/", "sub", "/", "..">>
    /\ last.res = Err(PathError)

(***************************************************************************)
(* C13 -- Recursive integrity sweep.  Starting at "/", the sweep calls     *)
(* check_file on the file entries of the tree in depth-first child order;  *)
(* the files whose check succeeded are at every moment the first files of  *)
(* that order, and "Everything ok" is printed only when they are all of    *)
(* them.  A damage report is printed only with exit(1), at the first file  *)
(* whose check fails with a checksum mismatch: it names that file, the     *)
(* checksum recorded for it and the checksum of its stored bytes as they   *)
(* are at that moment.  Once the sweep is over no further file is checked. *)
(***************************************************************************)
\* the paths of the file entries of the opened archive, depth first
SweepOrder ==
    LET files == DfsFiles(archive.header.root.content, <<>>)
    IN  [k \in 1..Len(files) |-> PathOf(files[k].path)]

\* the stored bytes of file entry f as the archive file holds them now
StoredNow(f) ==
    SubSeq(disk.bytes, ContentBase + f.index_start + 1,
           ContentBase + f.index_start + f.index_size)

SweepState ==
    /\ sweep.st \in {"running", "ok", "failed"} =>
           /\ Len(sweep.checked) <= Len(SweepOrder)
           /\ sweep.checked = SubSeq(SweepOrder, 1, Len(sweep.checked))
    /\ sweep.st = "ok" => sweep.checked = SweepOrder
    /\ sweep.out # NoReport =>
           /\ sweep.st = "failed"
           /\ Len(sweep.checked) < Len(SweepOrder)
           /\ sweep.out.path = SweepOrder[Len(sweep.checked) + 1]
           /\ sweep.out.exp =
                  FsLookup(archive.header.root, Segments(sweep.out.path)).checksum
           /\ sweep.out.real # sweep.out.exp

SweepStep ==
    /\ Ended(sweep) => sweep' = sweep
    /\ Len(sweep'.checked) > Len(sweep.checked) =>
           check_file(archive, disk, sweep'.checked[Len(sweep'.checked)]) = Ok(<<>>)
    /\ (sweep.out = NoReport /\ sweep'.out # NoReport) =>
           /\ disk.exists
           /\ sweep'.out.real =
                  crc32_hash(StoredNow(FsLookup(archive.header.root,
                                                Segments(sweep'.out.path))))

====
